---- MODULE Spec2Model ----
(***************************************************************************)
(* State-machine model of SentinelOrbitDownloader.process_orbit_data       *)
(* (src/snap_download_orbit_files.py): acquisition loading, catalog        *)
(* listing, chunk partitioning, the process-pool map of                    *)
(* process_filtered_eof_chunk, the reduction into matching_dict and the    *)
(* thread-pool dispatch of download_and_zip_snap / download_and_zip_isce.   *)
(*                                                                         *)
(* Text is modelled as a sequence of one-character strings, so that        *)
(* split, lstrip, replace, re.search, strptime and strftime are computed   *)
(* character by character as the Python code computes them.                *)
(***************************************************************************)
EXTENDS Naturals, Integers, Sequences, FiniteSets, TLC

(***************************************************************************)
(* Text helpers                                                            *)
(***************************************************************************)

DigitChars == <<"0", "1", "2", "3", "4", "5", "6", "7", "8", "9">>

DigitValue ==
    [c \in {DigitChars[i] : i \in 1..10} |->
        (CHOOSE i \in 1..10 : DigitChars[i] = c) - 1]

IsDigit(c) == c \in DOMAIN DigitValue

DigitVal(c) == DigitValue[c]

\* s[a:b] of Python with 0 <= a, b: the characters at 0-based a .. b-1.
Slice(s, a, b) ==
    LET lo == IF a > Len(s) THEN Len(s) ELSE a
        hi == IF b > Len(s) THEN Len(s) ELSE b
    IN  IF hi <= lo THEN << >> ELSE SubSeq(s, lo + 1, hi)

\* Whether text p occurs in s at 1-based position i.
OccursAt(s, p, i) ==
    /\ i >= 1
    /\ i + Len(p) - 1 <= Len(s)
    /\ \A k \in 1..Len(p) : s[i + k - 1] = p[k]

\* str.startswith
StartsWith(s, p) == OccursAt(s, p, 1)

\* the `in` operator on two strings
Contains(s, p) == \E i \in 1..(Len(s) + 1) : OccursAt(s, p, i)

\* str.split(sep) for a one-character separator
RECURSIVE Split(_, _)
Split(s, sep) ==
    IF \E i \in 1..Len(s) : s[i] = sep
    THEN LET i == CHOOSE i \in 1..Len(s) :
                      s[i] = sep /\ \A j \in 1..(i - 1) : s[j] # sep
         IN  <<SubSeq(s, 1, i - 1)>> \o Split(SubSeq(s, i + 1, Len(s)), sep)
    ELSE <<s>>

\* seq[-n:] for n >= 1
LastN(seq, n) ==
    IF Len(seq) <= n THEN seq ELSE SubSeq(seq, Len(seq) - n + 1, Len(seq))

\* str.lstrip(c) for a one-character set
RECURSIVE LStrip(_, _)
LStrip(s, c) ==
    IF s # << >> /\ Head(s) = c THEN LStrip(Tail(s), c) ELSE s

\* str.replace(old, ""): every non-overlapping occurrence, left to right
RECURSIVE RemoveAll(_, _)
RemoveAll(s, old) ==
    IF \E i \in 1..Len(s) : OccursAt(s, old, i)
    THEN LET i == CHOOSE i \in 1..Len(s) :
                      OccursAt(s, old, i) /\ \A j \in 1..(i - 1) : ~OccursAt(s, old, j)
         IN  SubSeq(s, 1, i - 1) \o RemoveAll(SubSeq(s, i + Len(old), Len(s)), old)
    ELSE s

\* decimal value of a run of digits
RECURSIVE DigitsVal(_)
DigitsVal(s) ==
    IF s = << >> THEN 0
    ELSE 10 * DigitsVal(SubSeq(s, 1, Len(s) - 1)) + DigitVal(s[Len(s)])

AllDigits(s, a, b) == \A k \in a..b : k <= Len(s) /\ IsDigit(s[k])

\* n written with exactly w digits, zero padded (n < 10^w)
RECURSIVE Pad(_, _)
Pad(n, w) ==
    IF w = 0 THEN << >> ELSE Pad(n \div 10, w - 1) \o <<DigitChars[(n % 10) + 1]>>

(***************************************************************************)
(* datetime.strptime(text, "%Y%m%dT%H%M%S") and strftime                   *)
(*                                                                         *)
(* A datetime is the tuple <<year, month, day, hour, minute, second>>.     *)
(* strptime compiles the format to a regular expression whose directives   *)
(* accept one or two digits (%Y exactly four), tried two digits first,     *)
(* with backtracking; the literal T is matched ignoring case; text left    *)
(* over after the match, a day outside the month and a second above 59     *)
(* raise ValueError.                                                       *)
(***************************************************************************)

EOF_DATE_FORMAT == <<"Y", "m", "d", "T", "H", "M", "S">>

\* whether value v, read from w digits, is accepted by directive d
DirectiveAccepts(d, w, v) ==
    CASE d = "Y" -> w = 4
      [] d = "m" -> IF w = 2 THEN v >= 1 /\ v <= 12 ELSE v >= 1
      [] d = "d" -> IF w = 2 THEN v >= 1 /\ v <= 31 ELSE v >= 1
      [] d = "H" -> IF w = 2 THEN v <= 23 ELSE TRUE
      [] d = "M" -> IF w = 2 THEN v <= 59 ELSE TRUE
      [] d = "S" -> IF w = 2 THEN v <= 61 ELSE TRUE
      [] OTHER -> FALSE

DirectiveWidths(d) == IF d = "Y" THEN <<4>> ELSE <<2, 1>>

NoMatch == [ok |-> FALSE, vals |-> << >>, end |-> 0]

\* The regular-expression match of directives k.. of fmt at position pos of
\* s: the first success in the engine's order (wider alternative first).
RECURSIVE MatchFrom(_, _, _, _)
RECURSIVE TryWidths(_, _, _, _, _)
MatchFrom(s, fmt, pos, k) ==
    IF k > Len(fmt) THEN [ok |-> TRUE, vals |-> << >>, end |-> pos]
    ELSE IF fmt[k] = "T"
         THEN IF pos <= Len(s) /\ s[pos] \in {"T", "t"}
              THEN MatchFrom(s, fmt, pos + 1, k + 1)
              ELSE NoMatch
    ELSE TryWidths(s, fmt, pos, k, DirectiveWidths(fmt[k]))

TryWidths(s, fmt, pos, k, widths) ==
    IF widths = << >> THEN NoMatch
    ELSE LET w == Head(widths)
             fits == AllDigits(s, pos, pos + w - 1)
             v == IF fits THEN DigitsVal(SubSeq(s, pos, pos + w - 1)) ELSE 0
             rest == IF fits /\ DirectiveAccepts(fmt[k], w, v)
                     THEN MatchFrom(s, fmt, pos + w, k + 1)
                     ELSE NoMatch
         IN  IF rest.ok
             THEN [ok |-> TRUE, vals |-> <<v>> \o rest.vals, end |-> rest.end]
             ELSE TryWidths(s, fmt, pos, k, Tail(widths))

IsLeap(y) == (y % 4 = 0 /\ y % 100 # 0) \/ y % 400 = 0

DaysInMonth(y, m) ==
    IF m = 2 THEN (IF IsLeap(y) THEN 29 ELSE 28)
    ELSE IF m \in {4, 6, 9, 11} THEN 30 ELSE 31

\* [ok |-> TRUE, dt |-> datetime] or [ok |-> FALSE] for a ValueError
Strptime(s, fmt) ==
    LET m == MatchFrom(s, fmt, 1, 1)
    IN  IF ~m.ok \/ m.end # Len(s) + 1 THEN [ok |-> FALSE, dt |-> << >>]
        ELSE IF \/ m.vals[1] < 1
                \/ m.vals[3] > DaysInMonth(m.vals[1], m.vals[2])
                \/ m.vals[6] > 59
             THEN [ok |-> FALSE, dt |-> << >>]
             ELSE [ok |-> TRUE, dt |-> m.vals]

\* date.strftime("%Y%m%dT%H%M%S") for a four-digit year
Strftime(dt) ==
    Pad(dt[1], 4) \o Pad(dt[2], 2) \o Pad(dt[3], 2) \o <<"T">>
        \o Pad(dt[4], 2) \o Pad(dt[5], 2) \o Pad(dt[6], 2)

\* a < b on datetimes
RECURSIVE TupleLess(_, _)
TupleLess(a, b) ==
    IF a = << >> THEN FALSE
    ELSE IF Head(a) # Head(b) THEN Head(a) < Head(b)
    ELSE TupleLess(Tail(a), Tail(b))

DtLeq(a, b) == a = b \/ TupleLess(a, b)

\* re.search(r"(\d{8}T\d{6})", s): the first match, or << >> for None
TimestampAt(s, i) ==
    /\ i + 14 <= Len(s)
    /\ AllDigits(s, i, i + 7)
    /\ s[i + 8] = "T"
    /\ AllDigits(s, i + 9, i + 14)

ReSearchTimestamp(s) ==
    IF \E i \in 1..Len(s) : TimestampAt(s, i)
    THEN LET i == CHOOSE i \in 1..Len(s) :
                      TimestampAt(s, i) /\ \A j \in 1..(i - 1) : ~TimestampAt(s, j)
         IN  SubSeq(s, i, i + 14)
    ELSE << >>

(***************************************************************************)
(* Configuration set by __init__                                           *)
(***************************************************************************)

NUM_TIMESTAMPS == 2

CHUNK_DIVISOR == 4

MAX_WORKERS == 10

(***************************************************************************)
(* An ordered dict is a sequence of [key, val] records with distinct keys, *)
(* in insertion order.                                                     *)
(***************************************************************************)

DictKeys(d) == [i \in 1..Len(d) |-> d[i].key]

DictValues(d) == [i \in 1..Len(d) |-> d[i].val]

HasKey(d, k) == \E i \in 1..Len(d) : d[i].key = k

DictGet(d, k) == d[CHOOSE i \in 1..Len(d) : d[i].key = k].val

\* d[k] = v
DictSet(d, k, v) ==
    IF HasKey(d, k)
    THEN [i \in 1..Len(d) |-> IF d[i].key = k THEN [key |-> k, val |-> v] ELSE d[i]]
    ELSE Append(d, [key |-> k, val |-> v])

(***************************************************************************)
(* process_filtered_eof_chunk                                              *)
(***************************************************************************)

\* lines 112-113: the last v underscore-separated fields, each without its
\* leading V's and without any ".EOF"
ValidityTokens(s, v) ==
    LET fields == LastN(Split(s, "_"), v)
    IN  [i \in 1..Len(fields) |->
            RemoveAll(LStrip(fields[i], "V"), <<".", "E", "O", "F">>)]

\* lines 116-117: "IndexError" when timestamps[-2] does not exist,
\* "ValueError" when a token does not parse, else "" with the interval
ParseValidity(s, fmt, v) ==
    LET toks == ValidityTokens(s, v)
    IN  IF Len(toks) < 2
        THEN [exc |-> "IndexError", start |-> << >>, end |-> << >>]
        ELSE LET a == Strptime(toks[Len(toks) - 1], fmt)
                 b == Strptime(toks[Len(toks)], fmt)
             IN  IF a.ok /\ b.ok
                 THEN [exc |-> "", start |-> a.dt, end |-> b.dt]
                 ELSE [exc |-> "ValueError", start |-> << >>, end |-> << >>]

\* a mutated line 120: the interval taken as open at both ends
CoveredOpen(acq_date, timestamp_start, timestamp_end) ==
    /\ TupleLess(timestamp_start, acq_date)
    /\ TupleLess(acq_date, timestamp_end)

\* line 120: acq_date >= timestamp_start and acq_date <= timestamp_end
Covered(acq_date, timestamp_start, timestamp_end) ==
    /\ DtLeq(timestamp_start, acq_date)
    /\ DtLeq(acq_date, timestamp_end)

\* lines 119-120
MatchingDates(acquisition_datetimes_, timestamp_start, timestamp_end) ==
    LET Keep(t) == Covered(t, timestamp_start, timestamp_end)
    IN  SelectSeq(acquisition_datetimes_, Keep)

\* lines 111-126 from candidate i on; an exception other than ValueError
\* leaves the loop and the function
RECURSIVE ProcessChunkFrom(_, _, _, _, _, _)
ProcessChunkFrom(chunk, i, acquisition_datetimes_, date_format, v, dict) ==
    IF i > Len(chunk) THEN [exc |-> "", out |-> dict]
    ELSE LET s == chunk[i]
             p == ParseValidity(s, date_format, v)
         IN  IF p.exc = "IndexError" THEN [exc |-> "IndexError", out |-> << >>]
             ELSE IF p.exc = "ValueError"
                  THEN ProcessChunkFrom(chunk, i + 1, acquisition_datetimes_,
                                        date_format, v, dict)
             ELSE LET matching_dates ==
                          MatchingDates(acquisition_datetimes_, p.start, p.end)
                      texts == [k \in 1..Len(matching_dates) |->
                                    Strftime(matching_dates[k])]
                  IN  ProcessChunkFrom(chunk, i + 1, acquisition_datetimes_,
                          date_format, v,
                          IF matching_dates # << >>
                          THEN DictSet(dict, s, texts) ELSE dict)

\* lines 108-128: [exc, out], out the returned matching_dict
process_filtered_eof_chunk(chunk, acquisition_datetimes_, date_format, v) ==
    ProcessChunkFrom(chunk, 1, acquisition_datetimes_, date_format, v, << >>)

(***************************************************************************)
(* Partitioning and reduction in process_orbit_data                        *)
(***************************************************************************)

\* line 157
ChunkSize(eof_files) == Len(eof_files) \div CHUNK_DIVISOR

\* a mutated line 159: exactly CHUNK_DIVISOR chunks, the last one taking
\* what is left over
ChunksFixedCount(eof_files, chunk_size) ==
    [k \in 1..CHUNK_DIVISOR |->
        IF k < CHUNK_DIVISOR
        THEN Slice(eof_files, (k - 1) * chunk_size, k * chunk_size)
        ELSE Slice(eof_files, (k - 1) * chunk_size, Len(eof_files))]

\* line 159 for chunk_size > 0: one slice per i in range(0, len, chunk_size)
Chunks(eof_files, chunk_size) ==
    LET n == (Len(eof_files) + chunk_size - 1) \div chunk_size
    IN  [k \in 1..n |-> Slice(eof_files, (k - 1) * chunk_size, k * chunk_size)]

\* a mutated line 167: the chunk's list replaces the global entry
RECURSIVE MergeChunkOverwrite(_, _)
MergeChunkOverwrite(dict, matching_strings_chunk) ==
    IF matching_strings_chunk = << >> THEN dict
    ELSE LET item == Head(matching_strings_chunk)
         IN  MergeChunkOverwrite(DictSet(dict, item.key, item.val),
                                 Tail(matching_strings_chunk))

\* lines 166-167: setdefault(filtered_eof, []).extend(matching_dates) for
\* every item of one chunk's mapping
RECURSIVE MergeChunk(_, _)
MergeChunk(dict, matching_strings_chunk) ==
    IF matching_strings_chunk = << >> THEN dict
    ELSE LET item == Head(matching_strings_chunk)
             old == IF HasKey(dict, item.key) THEN DictGet(dict, item.key) ELSE << >>
         IN  MergeChunk(DictSet(dict, item.key, old \o item.val),
                        Tail(matching_strings_chunk))

\* list.sort() on datetimes (insertion into a sorted prefix)
RECURSIVE InsertSorted(_, _)
InsertSorted(sorted, t) ==
    IF sorted = << >> THEN <<t>>
    ELSE IF TupleLess(t, Head(sorted)) THEN <<t>> \o sorted
    ELSE <<Head(sorted)>> \o InsertSorted(Tail(sorted), t)

RECURSIVE SortDatetimes(_)
SortDatetimes(seq) ==
    IF seq = << >> THEN << >>
    ELSE InsertSorted(SortDatetimes(SubSeq(seq, 1, Len(seq) - 1)), seq[Len(seq)])

(***************************************************************************)
(* State                                                                   *)
(***************************************************************************)

VARIABLES
    insar_processor,        \* self.insar_processor, from the command line
    zip_files,              \* what glob returns for slc_directory/*.zip
    listing,                \* the catalog page: [status, hrefs]
    fetch_ok,               \* the candidates whose GET answers 200
    pc,                     \* position of the main thread in process_orbit_data
    error,                  \* [exc, at]: the uncaught exception that ended
                            \* the run and the step that raised it
    satellite_names,        \* the satellites the for loop has still to visit
    SATELLITE_NAME,
    acquisition_datetimes,
    sentinel1_eof_files,
    chunks,
    results,                \* per chunk: [state, exc, out] of its pool task
    next_result,            \* the chunk result the reducer consumes next
    matching_dict,
    matching_eof_files,
    matched_slc_acquisition_dates,
    next_submit,            \* position of the dispatch loop in the zip
    tasks,                  \* thread-pool tasks: [eof, date, fn, state]
    gets,                   \* number of GETs issued per candidate
    storage                 \* the files written

vars == <<insar_processor, zip_files, listing, fetch_ok, pc, error,
          satellite_names, SATELLITE_NAME, acquisition_datetimes,
          sentinel1_eof_files, chunks, results, next_result, matching_dict,
          matching_eof_files, matched_slc_acquisition_dates, next_submit,
          tasks, gets, storage>>

inputs == <<insar_processor, zip_files, listing, fetch_ok>>

matchVars == <<acquisition_datetimes, sentinel1_eof_files, chunks, results,
               next_result, matching_dict>>

dispatchVars == <<matching_eof_files, matched_slc_acquisition_dates,
                  next_submit, tasks, gets, storage>>

S1A == <<"S", "1", "A">>

S1B == <<"S", "1", "B">>

\* an uncaught exception leaves process_orbit_data and ends the program
Raise(exc, unchanged) ==
    /\ pc' = "crashed"
    /\ error' = [exc |-> exc, at |-> pc]
    /\ UNCHANGED unchanged

(***************************************************************************)
(* process_orbit_data, step by step                                        *)
(***************************************************************************)

\* lines 54-64 and 133-137: the set of names, listed in some order
FindSatelliteNames ==
    /\ pc = "start"
    /\ LET names == {n \in {S1A, S1B} :
                        \E i \in 1..Len(zip_files) : Contains(zip_files[i], n)}
       IN  IF names = {}
           THEN /\ pc' = "done"
                /\ UNCHANGED satellite_names
           ELSE /\ pc' = "loop"
                /\ \E order \in [1..Cardinality(names) -> names] :
                      /\ \A i, j \in DOMAIN order : i # j => order[i] # order[j]
                      /\ satellite_names' = order
    /\ UNCHANGED <<inputs, error, SATELLITE_NAME, matchVars, dispatchVars>>

\* line 139, the loop exhausted
LoopExit ==
    /\ pc = "loop"
    /\ satellite_names = << >>
    /\ pc' = "done"
    /\ UNCHANGED <<inputs, error, satellite_names, SATELLITE_NAME, matchVars,
                   dispatchVars>>

\* lines 139-145
LoadAcquisitions ==
    /\ pc = "loop"
    /\ satellite_names # << >>
    /\ SATELLITE_NAME' = Head(satellite_names)
    /\ satellite_names' = Tail(satellite_names)
    /\ LET InSat(file) == Contains(file, Head(satellite_names))
           sentinel1_slc_files == SelectSeq(zip_files, InSat)
           found == [i \in 1..Len(sentinel1_slc_files) |->
                        ReSearchTimestamp(sentinel1_slc_files[i])]
           parsed == [i \in 1..Len(found) |-> Strptime(found[i], EOF_DATE_FORMAT)]
       IN  IF \E i \in 1..Len(found) : found[i] = << >>
           THEN Raise("AttributeError", <<acquisition_datetimes>>)
           ELSE IF \E i \in 1..Len(parsed) : ~parsed[i].ok
           THEN Raise("ValueError", <<acquisition_datetimes>>)
           ELSE /\ acquisition_datetimes' =
                       SortDatetimes([i \in 1..Len(parsed) |-> parsed[i].dt])
                /\ pc' = "fetch"
                /\ UNCHANGED error
    /\ UNCHANGED <<inputs, sentinel1_eof_files, chunks, results, next_result,
                   matching_dict, dispatchVars>>

\* lines 148-154
FetchListing ==
    /\ pc = "fetch"
    /\ IF listing.status # 200
       THEN /\ pc' = "done"
            /\ UNCHANGED sentinel1_eof_files
       ELSE /\ LET OfSat(item) == StartsWith(item, SATELLITE_NAME)
               IN  sentinel1_eof_files' = SelectSeq(listing.hrefs, OfSat)
            /\ pc' = "partition"
    /\ UNCHANGED <<inputs, error, satellite_names, SATELLITE_NAME,
                   acquisition_datetimes, chunks, results, next_result,
                   matching_dict, dispatchVars>>

\* lines 157-161: range() refuses a step of 0; executor.map submits one
\* task per chunk before it returns
PartitionChunks ==
    /\ pc = "partition"
    /\ LET chunk_size == ChunkSize(sentinel1_eof_files)
       IN  IF chunk_size = 0
           THEN Raise("ValueError", <<chunks, results>>)
           ELSE /\ chunks' = Chunks(sentinel1_eof_files, chunk_size)
                /\ results' = [i \in 1..Len(chunks') |->
                                  [state |-> "pending", exc |-> "", out |-> << >>]]
                /\ pc' = "map"
                /\ UNCHANGED error
    /\ UNCHANGED <<inputs, satellite_names, SATELLITE_NAME,
                   acquisition_datetimes, sentinel1_eof_files, next_result,
                   matching_dict, dispatchVars>>

\* one pool process runs process_filtered_eof_chunk on chunk i
ChunkWorker(i) ==
    /\ results[i].state = "pending"
    /\ LET r == process_filtered_eof_chunk(chunks[i], acquisition_datetimes,
                                           EOF_DATE_FORMAT, NUM_TIMESTAMPS)
       IN  results' = [results EXCEPT
                          ![i] = [state |-> "done", exc |-> r.exc, out |-> r.out]]
    /\ UNCHANGED <<inputs, pc, error, satellite_names, SATELLITE_NAME,
                   acquisition_datetimes, sentinel1_eof_files, chunks,
                   next_result, matching_dict, dispatchVars>>

\* a mutated pool exit that does not wait for the pending chunk tasks
PoolJoinedNoWait == TRUE

\* the exit of `with ProcessPoolExecutor()`: shutdown(wait=True)
PoolJoined == \A i \in 1..Len(results) : results[i].state = "done"

\* lines 158-164: the with block is left, then matching_dict = {}
PoolExit ==
    /\ pc = "map"
    /\ PoolJoined
    /\ pc' = "reduce"
    /\ next_result' = 1
    /\ matching_dict' = << >>
    /\ UNCHANGED <<inputs, error, satellite_names, SATELLITE_NAME,
                   acquisition_datetimes, sentinel1_eof_files, chunks, results,
                   dispatchVars>>

\* lines 165-167, one iteration of the outer loop: the iterator of
\* executor.map raises the exception of the chunk task it reaches
ReduceStep ==
    /\ pc = "reduce"
    /\ next_result <= Len(results)
    /\ IF results[next_result].exc # ""
       THEN Raise(results[next_result].exc, <<next_result, matching_dict>>)
       ELSE /\ matching_dict' = MergeChunk(matching_dict, results[next_result].out)
            /\ next_result' = next_result + 1
            /\ UNCHANGED <<pc, error>>
    /\ UNCHANGED <<inputs, satellite_names, SATELLITE_NAME,
                   acquisition_datetimes, sentinel1_eof_files, chunks, results,
                   dispatchVars>>

\* a mutated line 174: the last covered date instead of the first
LastDates(dict) == [i \in 1..Len(dict) |-> dict[i].val[Len(dict[i].val)]]

\* line 174: [dates[0] for dates in matching_dict.values()]
RepresentativeDates(dict) == [i \in 1..Len(dict) |-> dict[i].val[1]]

\* lines 170-176 and 184-185
DispatchBegin ==
    /\ pc = "reduce"
    /\ next_result > Len(results)
    /\ IF matching_dict # << >>
       THEN /\ matching_eof_files' = DictKeys(matching_dict)
            /\ matched_slc_acquisition_dates' = RepresentativeDates(matching_dict)
            /\ next_submit' = 1
            /\ pc' = "dispatch"
       ELSE /\ pc' = "loop"
            /\ UNCHANGED <<matching_eof_files, matched_slc_acquisition_dates,
                           next_submit>>
    /\ UNCHANGED <<inputs, error, satellite_names, SATELLITE_NAME, matchVars,
                   tasks, gets, storage>>

\* lines 177-182, one iteration: submit returns at once
SubmitTask ==
    /\ pc = "dispatch"
    /\ next_submit <= Len(matching_eof_files)
    /\ next_submit' = next_submit + 1
    /\ LET task(fn) == [eof |-> matching_eof_files[next_submit],
                        date |-> matched_slc_acquisition_dates[next_submit],
                        fn |-> fn, state |-> "queued"]
       IN  IF insar_processor = "isce" THEN tasks' = Append(tasks, task("isce"))
           ELSE IF insar_processor = "snap" THEN tasks' = Append(tasks, task("snap"))
           ELSE UNCHANGED tasks
    /\ UNCHANGED <<inputs, pc, error, satellite_names, SATELLITE_NAME, matchVars,
                   matching_eof_files, matched_slc_acquisition_dates, gets,
                   storage>>

Running == {i \in 1..Len(tasks) : tasks[i].state = "running"}

\* a mutated pool that starts a thread for every queued task
WorkerFreeUnbounded == TRUE

\* ThreadPoolExecutor(max_workers=MAX_WORKERS): at most that many threads
WorkerFree == Cardinality(Running) < MAX_WORKERS

\* a pool thread takes the oldest queued task
WorkerStart(i) ==
    /\ i \in 1..Len(tasks)
    /\ tasks[i].state = "queued"
    /\ \A j \in 1..(i - 1) : tasks[j].state # "queued"
    /\ WorkerFree
    /\ tasks' = [tasks EXCEPT ![i].state = "running"]
    /\ UNCHANGED <<inputs, pc, error, satellite_names, SATELLITE_NAME, matchVars,
                   matching_eof_files, matched_slc_acquisition_dates,
                   next_submit, gets, storage>>

\* lines 74-79 and 95-99: where a fetched file is written
StoragePath(fn, eof, acquisition_date) ==
    IF fn = "snap"
    THEN <<"snap", Split(eof, "_")[1], Slice(acquisition_date, 0, 4),
           Slice(acquisition_date, 4, 6), eof>>
    ELSE <<"isce", eof>>

\* a mutated download that writes whatever the status is
PersistsAlways(status) == TRUE

\* lines 70 and 92
Persists(status) == status = 200

\* download_and_zip_snap / download_and_zip_isce (lines 66-106) run by a
\* pool thread: one GET, then the file is written or the failure logged
WorkerFinish(i) ==
    /\ i \in 1..Len(tasks)
    /\ tasks[i].state = "running"
    /\ LET eof == tasks[i].eof
           status == IF eof \in fetch_ok THEN 200 ELSE 404
       IN  /\ gets' = IF eof \in DOMAIN gets
                      THEN [gets EXCEPT ![eof] = @ + 1]
                      ELSE gets @@ (eof :> 1)
           /\ storage' = IF Persists(status)
                         THEN storage \cup {StoragePath(tasks[i].fn, eof, tasks[i].date)}
                         ELSE storage
    /\ tasks' = [tasks EXCEPT ![i].state = "done"]
    /\ UNCHANGED <<inputs, pc, error, satellite_names, SATELLITE_NAME, matchVars,
                   matching_eof_files, matched_slc_acquisition_dates,
                   next_submit>>

\* the exit of `with ThreadPoolExecutor(...)`: shutdown(wait=True)
ThreadPoolExit ==
    /\ pc = "dispatch"
    /\ next_submit > Len(matching_eof_files)
    /\ \A i \in 1..Len(tasks) : tasks[i].state = "done"
    /\ pc' = "loop"
    /\ UNCHANGED <<inputs, error, satellite_names, SATELLITE_NAME, matchVars,
                   dispatchVars>>

Next ==
    \/ FindSatelliteNames
    \/ LoopExit
    \/ LoadAcquisitions
    \/ FetchListing
    \/ PartitionChunks
    \/ \E i \in 1..Len(results) : ChunkWorker(i)
    \/ PoolExit
    \/ ReduceStep
    \/ DispatchBegin
    \/ SubmitTask
    \/ \E i \in 1..Len(tasks) : WorkerStart(i)
    \/ \E i \in 1..Len(tasks) : WorkerFinish(i)
    \/ ThreadPoolExit

(***************************************************************************)
(* Inputs: the local inventory, the catalog page, the fetch collaborator   *)
(***************************************************************************)

\* longest base catalog of the general runs
MaxLen == 8

\* number of candidates, all matched, in the worker-pool runs
MaxMatched == 11

\* longest chunk handed to process_filtered_eof_chunk on its own
MaxChunkLen == 3

SlcDir == <<"d", "/", "s", "l", "c", "/">>

\* the text of 2021-01-<day> at h:m:s
Stamp(day, h, m, s) == Strftime(<<2021, 1, day, h, m, s>>)

\* an acquisition archive of satellite sat taken at noon of the day
Zip(sat, day) ==
    SlcDir \o sat \o <<"_", "I", "W", "_">> \o Stamp(day, 12, 0, 0)
        \o <<".", "z", "i", "p">>

\* archives without a timestamp, with the 13th month, of no known satellite
ZipNoStamp == SlcDir \o S1A \o <<"_", "2", "0", "2", "1", ".", "z", "i", "p">>

ZipBadMonth ==
    SlcDir \o S1A \o <<"_", "2", "0", "2", "1", "1", "3", "0", "5", "T",
                       "1", "2", "0", "0", "0", "0", ".", "z", "i", "p">>

ZipOther == SlcDir \o <<"S", "2", "A">> \o <<"_">> \o Stamp(5, 12, 0, 0)

\* a candidate of satellite sat valid from a to b
Candidate(sat, a, b) ==
    sat \o <<"_", "O", "P", "_", "V">> \o a \o <<"_">> \o b \o <<".", "E", "O", "F">>

\* valid from noon of day i to noon of day i + 1
Gen(sat, i) == Candidate(sat, Stamp(i, 12, 0, 0), Stamp(i + 1, 12, 0, 0))

\* valid for the whole month, distinct for distinct i
PoolGen(i) == Candidate(S1A, Stamp(1, 0, 0, i), Stamp(31, 0, 0, 0))

\* a candidate whose validity fields are no timestamps (ValueError)
BadFields == S1A \o <<"_", "V", "2", "0", "2", "1", "_", "x", ".", "E", "O", "F">>

\* a candidate without a second underscore-separated field (IndexError)
OneField == S1A \o <<".", "E", "O", "F">>

ParentLink == <<".", ".", "/">>

BaseCatalog(m) == [i \in 1..m |-> Gen(S1A, i + 2)]

ReplaceAt(seq, i, x) == [k \in 1..Len(seq) |-> IF k = i THEN x ELSE seq[k]]

InsertAt(seq, p, x) == SubSeq(seq, 1, p - 1) \o <<x>> \o SubSeq(seq, p, Len(seq))

RemoveAt(seq, p) == SubSeq(seq, 1, p - 1) \o SubSeq(seq, p + 1, Len(seq))

\* the base catalog of length m, with one entry named twice, or with one
\* unparseable entry put in at any position
CatalogVariants(m) ==
    {BaseCatalog(m)}
    \cup {ReplaceAt(BaseCatalog(m), i, BaseCatalog(m)[j]) : i \in 1..m, j \in 1..m}
    \cup {InsertAt(BaseCatalog(m), p, bad) :
              p \in 1..(m + 1), bad \in {BadFields, OneField}}

Catalogs == UNION {CatalogVariants(m) : m \in 0..MaxLen}

Page(status, eofs) == [status |-> status, hrefs |-> <<ParentLink>> \o eofs]

Processors == {"isce", "snap", "gamma"}

Inventories ==
    { << >>,
      <<ZipOther>>,
      <<Zip(S1A, 5)>>,
      <<Zip(S1A, 6), Zip(S1A, 5)>>,
      <<Zip(S1A, 5), ZipNoStamp, Zip(S1A, 6)>>,
      <<ZipBadMonth>>,
      <<Zip(S1A, 5), Zip(S1B, 5)>> }

\* the candidates of the base catalogs that cover an acquisition
Matchable == {Gen(S1A, 4), Gen(S1A, 5), Gen(S1A, 6)}

\* the catalog page of the inventory runs: four candidates per satellite
BothCatalog == BaseCatalog(4) \o [i \in 1..4 |-> Gen(S1B, i + 2)]

\* runs over every catalog, with two acquisitions and a working server
CatalogRuns ==
    [proc : {"snap"},
     zips : {<<Zip(S1A, 6), Zip(S1A, 5)>>},
     page : {Page(200, c) : c \in Catalogs},
     ok   : {Matchable}]

\* runs over every inventory, processor, page status and server answer
InventoryRuns ==
    [proc : Processors,
     zips : Inventories,
     page : {Page(st, BothCatalog) : st \in {200, 503}},
     ok   : {served \cup {Gen(S1B, 4)} : served \in SUBSET Matchable}]

\* runs with more matched candidates than pool threads
PoolCatalog == [i \in 1..MaxMatched |-> PoolGen(i)]

PoolRuns ==
    [proc : {"isce"},
     zips : {<<Zip(S1A, 5)>>},
     page : {Page(200, PoolCatalog)},
     ok   : {{PoolGen(i) : i \in 1..MaxMatched}}]

InitWith(runs) ==
    /\ \E r \in runs :
          /\ insar_processor = r.proc
          /\ zip_files = r.zips
          /\ listing = r.page
          /\ fetch_ok = r.ok
    /\ pc = "start"
    /\ error = [exc |-> "", at |-> ""]
    /\ satellite_names = << >>
    /\ SATELLITE_NAME = << >>
    /\ acquisition_datetimes = << >>
    /\ sentinel1_eof_files = << >>
    /\ chunks = << >>
    /\ results = << >>
    /\ next_result = 1
    /\ matching_dict = << >>
    /\ matching_eof_files = << >>
    /\ matched_slc_acquisition_dates = << >>
    /\ next_submit = 1
    /\ tasks = << >>
    /\ gets = << >>
    /\ storage = {}

\* the whole program over every inventory, processor and server answer
Init == InitWith(InventoryRuns)

Spec == Init /\ [][Next]_vars

\* the whole program over every catalog
InitCatalog == InitWith(CatalogRuns)

SpecCatalog == InitCatalog /\ [][Next]_vars

\* the whole program with more matched candidates than pool threads
InitPool == InitWith(PoolRuns)

SpecPool == InitPool /\ [][Next]_vars

\* process_filtered_eof_chunk on its own: one call on any chunk over
\* ChunkPool and any acquisition sequence over AcqPool
MaxAcq == 2

ChunkPool == {Gen(S1A, 4), Gen(S1A, 5), Gen(S1A, 7), BadFields, OneField}

AcqPool == {<<2021, 1, 5, 12, 0, 0>>, <<2021, 1, 6, 12, 0, 0>>}

SeqsUpTo(S, n) == UNION {[1..k -> S] : k \in 0..n}

InitChunk ==
    /\ insar_processor = "snap"
    /\ zip_files = << >>
    /\ listing = Page(200, << >>)
    /\ fetch_ok = {}
    /\ pc = "map"
    /\ error = [exc |-> "", at |-> ""]
    /\ satellite_names = << >>
    /\ SATELLITE_NAME = S1A
    /\ acquisition_datetimes \in SeqsUpTo(AcqPool, MaxAcq)
    /\ sentinel1_eof_files = << >>
    /\ \E chunk \in SeqsUpTo(ChunkPool, MaxChunkLen) :
          /\ chunks = <<chunk>>
          /\ results = <<[state |-> "pending", exc |-> "", out |-> << >>]>>
    /\ next_result = 1
    /\ matching_dict = << >>
    /\ matching_eof_files = << >>
    /\ matched_slc_acquisition_dates = << >>
    /\ next_submit = 1
    /\ tasks = << >>
    /\ gets = << >>
    /\ storage = {}

NextChunk == \E i \in 1..Len(results) : ChunkWorker(i)

SpecChunk == InitChunk /\ [][NextChunk]_vars

(***************************************************************************)
(* Definitions shared by the properties                                    *)
(***************************************************************************)

RECURSIVE Concat(_)
Concat(seqs) == IF seqs = << >> THEN << >> ELSE Head(seqs) \o Concat(Tail(seqs))

RECURSIVE Repeat(_, _)
Repeat(seq, n) == IF n = 0 THEN << >> ELSE seq \o Repeat(seq, n - 1)

Elements(seq) == {seq[i] : i \in 1..Len(seq)}

\* the chunks are those of the current candidate list
Partitioned == pc \in {"map", "reduce", "dispatch"}

\* the reducer has just consumed the last chunk result
Reduced == pc = "reduce" /\ next_result > Len(results)

\* the mapping is complete
MappingBuilt == (pc = "reduce" /\ next_result > Len(results)) \/ pc = "dispatch"

\* the dispatch loop has gone through every matched candidate
DispatchDone == pc = "dispatch" /\ next_submit > Len(matching_eof_files)

TasksFor(eof) == {i \in 1..Len(tasks) : tasks[i].eof = eof}

\* lines 157-167 as one function of the candidate list: the exception that
\* ends the run, or the reduced mapping
RECURSIVE ReduceFrom(_, _, _)
ReduceFrom(rs, k, dict) ==
    IF k > Len(rs) THEN [exc |-> "", out |-> dict]
    ELSE IF rs[k].exc # "" THEN [exc |-> rs[k].exc, out |-> << >>]
    ELSE ReduceFrom(rs, k + 1, MergeChunk(dict, rs[k].out))

RunMapping(eof_files, acquisition_datetimes_) ==
    IF ChunkSize(eof_files) = 0 THEN [exc |-> "ValueError", out |-> << >>]
    ELSE LET chs == Chunks(eof_files, ChunkSize(eof_files))
             rs == [k \in 1..Len(chs) |->
                       process_filtered_eof_chunk(chs[k], acquisition_datetimes_,
                                                  EOF_DATE_FORMAT, NUM_TIMESTAMPS)]
         IN  ReduceFrom(rs, 1, << >>)

(***************************************************************************)
(* C1: interval matching                                                   *)
(***************************************************************************)

\* the acquisitions t with start <= t <= end, in the order of the sequence
RECURSIVE CoveredInOrder(_, _, _)
CoveredInOrder(acqs, start, end) ==
    IF acqs = << >> THEN << >>
    ELSE (IF DtLeq(start, Head(acqs)) /\ DtLeq(Head(acqs), end)
          THEN <<Head(acqs)>> ELSE << >>)
         \o CoveredInOrder(Tail(acqs), start, end)

ParsedDates(texts) ==
    [i \in 1..Len(texts) |-> Strptime(texts[i], EOF_DATE_FORMAT).dt]

ChunkResultCorrect(chunk, acqs, out) ==
    /\ \A i \in 1..Len(out) : out[i].key \in Elements(chunk) /\ out[i].val # << >>
    /\ \A i, j \in 1..Len(out) : out[i].key = out[j].key => i = j
    /\ \A s \in Elements(chunk) :
          LET p == ParseValidity(s, EOF_DATE_FORMAT, NUM_TIMESTAMPS)
              want == IF p.exc = "" THEN CoveredInOrder(acqs, p.start, p.end)
                      ELSE << >>
          IN  IF want = << >> THEN ~HasKey(out, s)
              ELSE HasKey(out, s) /\ ParsedDates(DictGet(out, s)) = want

\* C1: every mapping returned by process_filtered_eof_chunk holds, for each
\* parseable candidate of the chunk with validity interval [s, e], exactly
\* the acquisition timestamps t with s <= t <= e (t = s and t = e included),
\* in the order of the acquisition sequence; a candidate is a key if and
\* only if it covers at least one acquisition, and no key has an empty list.
C1_ContainmentCorrect ==
    \A k \in 1..Len(results) :
        (results[k].state = "done" /\ results[k].exc = "")
            => ChunkResultCorrect(chunks[k], acquisition_datetimes, results[k].out)

\* a returned mapping whose key covers two acquisitions, one at each end of
\* its interval, from a chunk that also holds a parseable candidate covering
\* none and an unparseable one
C1_Witness ==
    \E k \in 1..Len(results) :
        /\ results[k].state = "done"
        /\ results[k].exc = ""
        /\ \E i \in 1..Len(results[k].out) :
              LET p == ParseValidity(results[k].out[i].key, EOF_DATE_FORMAT,
                                     NUM_TIMESTAMPS)
              IN  ParsedDates(results[k].out[i].val) = <<p.start, p.end>>
        /\ Gen(S1A, 7) \in Elements(chunks[k])
        /\ BadFields \in Elements(chunks[k])
        /\ ~HasKey(results[k].out, Gen(S1A, 7))

(***************************************************************************)
(* C2: partition completeness                                              *)
(***************************************************************************)

\* C2: for every candidate list, of any length M >= 0, the partitioning
\* step completes without error and the chunks concatenated in order are
\* the list itself.
C2_PartitionComplete ==
    /\ error.at # "partition"
    /\ Partitioned => Concat(chunks) = sentinel1_eof_files

(***************************************************************************)
(* C3: chunked and undivided matching                                      *)
(***************************************************************************)

Sequential ==
    process_filtered_eof_chunk(sentinel1_eof_files, acquisition_datetimes,
                               EOF_DATE_FORMAT, NUM_TIMESTAMPS).out

ChunksNaming(eof) ==
    Cardinality({k \in 1..Len(chunks) : eof \in Elements(chunks[k])})

\* C3 as claimed: the reduced mapping is the mapping of one call of
\* process_filtered_eof_chunk on the undivided list, also when the list
\* names a candidate more than once.
C3_SameAsUndivided == Reduced => matching_dict = Sequential

\* C3 as amended: the reduced mapping has the keys of the undivided call in
\* the same order, and each covered-list is the undivided call's list
\* repeated once for every chunk that names the candidate.
C3_RepeatedPerChunk ==
    Reduced =>
        LET undivided == Sequential
        IN  matching_dict =
                [i \in 1..Len(undivided) |->
                    [key |-> undivided[i].key,
                     val |-> Repeat(undivided[i].val,
                                    ChunksNaming(undivided[i].key))]]

\* a reduced mapping of several chunks with a candidate named in two of
\* them, next to a candidate named in one
C3_Witness ==
    /\ Reduced
    /\ Len(chunks) > 1
    /\ \E i, j \in 1..Len(matching_dict) :
          /\ ChunksNaming(matching_dict[i].key) = 2
          /\ ChunksNaming(matching_dict[j].key) = 1

(***************************************************************************)
(* C4: one unparseable candidate                                           *)
(***************************************************************************)

Unparseable(s) == ParseValidity(s, EOF_DATE_FORMAT, NUM_TIMESTAMPS).exc # ""

OnlyUnparseableAt(eof_files, p) ==
    /\ Unparseable(eof_files[p])
    /\ \A q \in 1..Len(eof_files) : q # p => ~Unparseable(eof_files[q])

\* C4: when the candidate list holds exactly one unparseable entry, no
\* chunk task is aborted by it and the reduced mapping is the one the
\* program obtains from the list without that entry.
C4_MalformedTolerated ==
    /\ (pc = "crashed" /\ error.at = "reduce") =>
           ~\E p \in 1..Len(sentinel1_eof_files) :
                OnlyUnparseableAt(sentinel1_eof_files, p)
    /\ Reduced =>
           \A p \in 1..Len(sentinel1_eof_files) :
               OnlyUnparseableAt(sentinel1_eof_files, p) =>
                   RunMapping(RemoveAt(sentinel1_eof_files, p),
                              acquisition_datetimes)
                       = [exc |-> "", out |-> matching_dict]

(***************************************************************************)
(* C5: an acquisition identifier without a timestamp                       *)
(***************************************************************************)

\* C5: an acquisition identifier without an embedded timestamp is left out
\* of the acquisition set and the run continues: loading the acquisitions
\* never ends the run with the failed search.
C5_BadIdentifierExcluded ==
    ~(pc = "crashed" /\ error.at = "loop" /\ error.exc = "AttributeError")

(***************************************************************************)
(* C6: one retrieval per matched candidate                                 *)
(***************************************************************************)

AtMostOneTaskEach == \A i, j \in 1..Len(tasks) : tasks[i].eof = tasks[j].eof => i = j

\* C6 as claimed: whatever the processor flag, once the dispatch loop is
\* through, every key of the mapping has exactly one task, submitted with
\* the first date of its covered-list.
C6_OneTaskPerKey ==
    /\ AtMostOneTaskEach
    /\ DispatchDone =>
          \A i \in 1..Len(matching_dict) :
              /\ Cardinality(TasksFor(matching_dict[i].key)) = 1
              /\ \A t \in TasksFor(matching_dict[i].key) :
                    tasks[t].date = matching_dict[i].val[1]

\* C6 as amended: with the flag "isce" or "snap" every key has exactly one
\* task, of that flag's function and with the first date of its
\* covered-list; with any other flag no task is submitted for any key.
C6_OneTaskPerKeyIfKnownFlag ==
    /\ AtMostOneTaskEach
    /\ DispatchDone =>
          \A i \in 1..Len(matching_dict) :
              IF insar_processor \in {"isce", "snap"}
              THEN /\ Cardinality(TasksFor(matching_dict[i].key)) = 1
                   /\ \A t \in TasksFor(matching_dict[i].key) :
                         /\ tasks[t].date = matching_dict[i].val[1]
                         /\ tasks[t].fn = insar_processor
              ELSE TasksFor(matching_dict[i].key) = {}

\* the dispatch loop is through a mapping with a key that covers two
\* different acquisitions, and its task exists
C6_Witness ==
    /\ DispatchDone
    /\ \E i \in 1..Len(matching_dict) :
          /\ Len(matching_dict[i].val) = 2
          /\ matching_dict[i].val[1] # matching_dict[i].val[2]
          /\ TasksFor(matching_dict[i].key) # {}

(***************************************************************************)
(* C7: a failed fetch                                                      *)
(***************************************************************************)

BatchOver ==
    \/ DispatchDone /\ \A i \in 1..Len(tasks) : tasks[i].state = "done"
    \/ pc \in {"loop", "done"}

Failed(i) == tasks[i].state = "done" /\ tasks[i].eof \notin fetch_ok

Stored(i) == StoragePath(tasks[i].fn, tasks[i].eof, tasks[i].date) \in storage

\* C7: no candidate is requested twice, nothing is written for a candidate
\* whose fetch answered a non-success status, and when the batch is over
\* after such a failure every matched candidate has been requested once and
\* every one that answered 200 is written.
C7_FailureIsLocal ==
    /\ \A e \in DOMAIN gets : gets[e] = 1
    /\ \A i \in 1..Len(tasks) : tasks[i].eof \notin fetch_ok => ~Stored(i)
    /\ (BatchOver /\ \E i \in 1..Len(tasks) : Failed(i)) =>
          \A k \in 1..Len(matching_eof_files) :
              /\ matching_eof_files[k] \in DOMAIN gets
              /\ \E i \in TasksFor(matching_eof_files[k]) :
                    tasks[i].state = "done"
                    /\ (tasks[i].eof \in fetch_ok => Stored(i))

\* a finished batch with one failed and one stored candidate
C7_Witness ==
    /\ BatchOver
    /\ \E i, j \in 1..Len(tasks) :
          /\ Failed(i)
          /\ tasks[j].eof \in Elements(matching_eof_files)
          /\ tasks[i].eof \in Elements(matching_eof_files)
          /\ tasks[j].eof \in fetch_ok
          /\ Stored(j)

(***************************************************************************)
(* C8: the worker cap                                                      *)
(***************************************************************************)

\* C8: never more than MAX_WORKERS retrieval tasks run at once, and while
\* matched candidates remain the next submission can always be made,
\* whatever the state of the tasks submitted before.
C8_WorkerCap ==
    /\ Cardinality(Running) <= MAX_WORKERS
    /\ (pc = "dispatch" /\ next_submit <= Len(matching_eof_files))
           => ENABLED SubmitTask

\* MAX_WORKERS tasks run, one more waits, none has completed
C8_Witness ==
    /\ Cardinality(Running) = MAX_WORKERS
    /\ \E i \in 1..Len(tasks) : tasks[i].state = "queued"
    /\ \A i \in 1..Len(tasks) : tasks[i].state # "done"

(***************************************************************************)
(* C9: the order of the phases                                             *)
(***************************************************************************)

NoTaskActive == \A i \in 1..Len(tasks) : tasks[i].state = "done"

\* C9: the reducer takes a step, and the mapping changes, only when every
\* chunk task has returned and no retrieval task is queued or running; a
\* retrieval task is submitted only when the reducer has consumed every
\* chunk result, for a key of the mapping as it then is.
C9_PhasesOrdered ==
    [][ /\ (next_result' # next_result \/ matching_dict' # matching_dict)
            => (NoTaskActive /\ \A i \in 1..Len(results) :
                                    results[i].state = "done")
        /\ (tasks' # tasks /\ Len(tasks') > Len(tasks))
            => /\ MappingBuilt
               /\ matching_dict' = matching_dict
               /\ HasKey(matching_dict, tasks'[Len(tasks')].eof) ]_vars

\* a task submitted from a mapping reduced from several chunk results
C9_Witness ==
    /\ pc = "dispatch"
    /\ Len(results) > 1
    /\ next_result > Len(results)
    /\ \E i \in 1..Len(tasks) :
          tasks[i].state = "running" /\ HasKey(matching_dict, tasks[i].eof)

(***************************************************************************)
(* C10: the number of chunks                                               *)
(***************************************************************************)

\* C10 as claimed: a list of at least CHUNK_DIVISOR candidates is split
\* into exactly CHUNK_DIVISOR chunks.
C10_FixedChunkCount ==
    (Partitioned /\ Len(sentinel1_eof_files) >= CHUNK_DIVISOR)
        => Len(chunks) = CHUNK_DIVISOR

\* C10 as amended: for M >= CHUNK_DIVISOR candidates every chunk but the
\* last has exactly M // CHUNK_DIVISOR elements and the last has between 1
\* and that many, so there are at least CHUNK_DIVISOR chunks, and more than
\* that whenever M is not a multiple of CHUNK_DIVISOR: the elements left
\* over form further chunks.
C10_ChunksOfFixedSize ==
    (Partitioned /\ Len(sentinel1_eof_files) >= CHUNK_DIVISOR) =>
        LET m == Len(sentinel1_eof_files)
            size == m \div CHUNK_DIVISOR
        IN  /\ \A k \in 1..(Len(chunks) - 1) : Len(chunks[k]) = size
            /\ Len(chunks[Len(chunks)]) \in 1..size
            /\ Len(chunks) >= CHUNK_DIVISOR
            /\ Len(chunks) = CHUNK_DIVISOR <=> m % CHUNK_DIVISOR = 0

\* chunks of two candidates with a fifth, shorter chunk
C10_Witness ==
    /\ Partitioned
    /\ Len(chunks) > CHUNK_DIVISOR
    /\ Len(chunks[1]) = 2
    /\ Len(chunks[Len(chunks)]) = 1

====
